---- MODULE Spec2Model ----
(***************************************************************************)
(* BossTimerBot (src/bot.py): the in-memory schedule SCHEDULES, its JSON   *)
(* file, the command handler on_message and the polling task alarm_loop.   *)
(*                                                                         *)
(* The bot runs on one asyncio event loop: a coroutine runs without        *)
(* interruption from one await to the next.  Every action below is one     *)
(* such uninterrupted run.  on_message changes the store before its only   *)
(* await (the reply), so a command is one action.  alarm_loop awaits       *)
(* ch.send between testing a record and changing it, and awaits the sleep  *)
(* between ticks, so a tick is a chain of actions: one up to the first     *)
(* send, one from each send's completion to the next send or to the sleep. *)
(*                                                                         *)
(* Times are minutes since midnight of day 0 in the bot's time zone; the   *)
(* wall clock counts half minutes so that truncating it to the minute is   *)
(* a real operation.  Names are romanised: Venatus, Violent, Ego, ...      *)
(***************************************************************************)
EXTENDS Integers, Sequences, FiniteSets, TLC

VARIABLES
  SCHEDULES,  \* the dict gid -> (boss -> record object), in insertion order
  objs,       \* the record objects (Python dicts) that are still referenced
  file,       \* the contents of boss_data.json
  clock,      \* the wall clock, in half minutes
  channels,   \* the channel ids bot.get_channel resolves
  loops,      \* the alarm_loop tasks, each at its await
  env,        \* the kind of run this is (see Runs); never changes
  prealerts,  \* history: the pre-alerts sent for each record since it was
              \* registered (2 stands for two or more)
  finals      \* history: whether a final alert was sent for the record at a
              \* tick that found its pre-alert still unsent

vars == <<SCHEDULES, objs, file, clock, channels, loops, env, prealerts, finals>>

----------------------------------------------------------------------------
(* Configuration (bot.py lines 10-23) *)

PRE_ALERT_MIN == 10

BOSS_CYCLE ==
  [n \in {"Undumiel", "Ego", "Araneo", "Libera", "Venatus", "Violent",
          "Lady Dahlia", "General Aculeus", "Amentis", "Baron Braudmore",
          "Wanitas", "Metus", "Duplican", "Schreier", "Gareth", "Titore",
          "Larba"} |->
     CASE n \in {"Undumiel", "Araneo", "Libera"} -> 18
       [] n = "Ego" -> 16
       [] n \in {"Venatus", "Violent"} -> 4
       [] n = "Lady Dahlia" -> 14
       [] n \in {"General Aculeus", "Amentis"} -> 22
       [] n \in {"Baron Braudmore", "Gareth"} -> 24
       [] n \in {"Wanitas", "Metus", "Duplican"} -> 36
       [] n \in {"Schreier", "Larba"} -> 26
       [] n = "Titore" -> 28]

MinutesPerHour == 60
MinutesPerDay == 1440

----------------------------------------------------------------------------
(* Python dicts keep insertion order: a dict is a sequence of entries with *)
(* distinct keys.                                                          *)

Range(s) == {s[i] : i \in 1..Len(s)}

Keys(d) == {d[i].key : i \in 1..Len(d)}

Has(d, k) == k \in Keys(d)

Get(d, k) == (CHOOSE e \in Range(d) : e.key = k).val

\* d[k] = v: an existing key keeps its place, a new key goes last
Put(d, k, v) ==
  IF Has(d, k)
  THEN [i \in 1..Len(d) |-> IF d[i].key = k THEN [key |-> k, val |-> v] ELSE d[i]]
  ELSE Append(d, [key |-> k, val |-> v])

\* del d[k], for a key that is present
Del(d, k) == SelectSeq(d, LAMBDA e : e.key # k)

----------------------------------------------------------------------------
(* Time (bot.py lines 68-81, 172) *)

TicksPerMinute == 2

\* datetime.now(TZ).replace(second=0, microsecond=0), in minutes
NowMinute(c) == c \div TicksPerMinute

\* the midnight that starts the calendar day of wall-clock instant c
Today(c) == (NowMinute(c) \div MinutesPerDay) * MinutesPerDay

None == [none |-> TRUE]

\* what parse_time returns for a text it rejects (Python's None)
NoMatch == <<>>

DigitValue ==
  [c \in {"0", "1", "2", "3", "4", "5", "6", "7", "8", "9"} |->
     CASE c = "0" -> 0 [] c = "1" -> 1 [] c = "2" -> 2 [] c = "3" -> 3
       [] c = "4" -> 4 [] c = "5" -> 5 [] c = "6" -> 6 [] c = "7" -> 7
       [] c = "8" -> 8 [] c = "9" -> 9]

IsDigit(c) == c \in DOMAIN DigitValue

\* int() of a run of one or two digits
IntOf(ds) ==
  IF Len(ds) = 1 THEN DigitValue[ds[1]]
  ELSE 10 * DigitValue[ds[1]] + DigitValue[ds[2]]

\* parse_time with the hour tested against 24 instead of 23
parse_time_to_24(text) ==
  LET n == Len(text) IN
  IF /\ n \in {4, 5}
     /\ text[n - 2] = ":"
     /\ \A i \in (1..n) \ {n - 2} : IsDigit(text[i])
  THEN LET hh == IntOf(SubSeq(text, 1, n - 3))
           mm == IntOf(SubSeq(text, n - 1, n))
       IN IF 0 <= hh /\ hh <= 24 /\ 0 <= mm /\ mm <= 59
          THEN <<hh, mm>> ELSE NoMatch
  ELSE NoMatch

\* re.match(r"^\s*(\d{1,2}):(\d{2})\s*$", text) and the range test; text is
\* one word of the message, a sequence of characters without white space
parse_time(text) ==
  LET n == Len(text) IN
  IF /\ n \in {4, 5}
     /\ text[n - 2] = ":"
     /\ \A i \in (1..n) \ {n - 2} : IsDigit(text[i])
  THEN LET hh == IntOf(SubSeq(text, 1, n - 3))
           mm == IntOf(SubSeq(text, n - 1, n))
       IN IF 0 <= hh /\ hh <= 23 /\ 0 <= mm /\ mm <= 59
          THEN <<hh, mm>> ELSE NoMatch
  ELSE NoMatch

\* calc_spawn that takes a time of day later than now to be yesterday's
calc_spawn_rolled_back(boss, hh, mm, c) ==
  LET cycle == BOSS_CYCLE[boss]
      today == Today(c) + hh * MinutesPerHour + mm
      kill == IF today > NowMinute(c) THEN today - MinutesPerDay ELSE today
  IN [spawn |-> kill + cycle * MinutesPerHour, kill |-> kill, cycle |-> cycle]

\* calc_spawn at wall-clock instant c: [spawn, kill, cycle]
calc_spawn(boss, hh, mm, c) ==
  LET cycle == BOSS_CYCLE[boss]
      kill == Today(c) + hh * MinutesPerHour + mm
  IN [spawn |-> kill + cycle * MinutesPerHour, kill |-> kill, cycle |-> cycle]

----------------------------------------------------------------------------
(* The record objects.  SCHEDULES[gid][boss] holds a reference (an id in   *)
(* objs) to a dict with the keys spawn, kill, channel, prealert_sent.  A   *)
(* tick's snapshot holds the same references, so it sees a flag another    *)
(* task sets and keeps an object alive after the store dropped it.         *)

MaxId(ids) == IF ids = {} THEN 0 ELSE CHOOSE m \in ids : \A i \in ids : i <= m

\* a reference no object in use has
NewId(used) == CHOOSE i \in 1..(MaxId(used) + 1) : i \notin used /\ \A j \in 1..(i - 1) : j \in used

\* a lookup that forgets the tenant: the first tenant's records
EntriesOfFirst(S, gid) == IF S # <<>> THEN S[1].val ELSE <<>>

\* SCHEDULES.get(gid, {})
Entries(S, gid) == IF Has(S, gid) THEN Get(S, gid) ELSE <<>>

\* the record stored under (gid, boss), or None
RecordAt(S, O, gid, boss) ==
  IF Has(S, gid) /\ Has(Get(S, gid), boss) THEN O[Get(Get(S, gid), boss)] ELSE None

\* a tenant's records by value, in order
TenantView(S, O, gid) ==
  IF Has(S, gid)
  THEN [i \in 1..Len(Get(S, gid)) |->
          [boss |-> Get(S, gid)[i].key, rec |-> O[Get(S, gid)[i].val]]]
  ELSE <<>>

----------------------------------------------------------------------------
(* The JSON file (bot.py lines 31-66).  json.dump writes a tenant id as a  *)
(* string key and, through default=str, a datetime as its text; load_data  *)
(* turns them back with int() and datetime.fromisoformat().                *)

NoFile == [exists |-> FALSE]
Corrupt == [exists |-> TRUE, json |-> FALSE]
Document(raw) == [exists |-> TRUE, json |-> TRUE, raw |-> raw]

DigitChars == <<"0", "1", "2", "3", "4", "5", "6", "7", "8", "9">>

TwoDigits(n) == <<DigitChars[(n \div 10) + 1], DigitChars[(n % 10) + 1]>>

\* a dict key that is an int, as JSON writes it: its decimal digits
StrOfInt(i) == IF i < 10 THEN <<DigitChars[i + 1]>> ELSE TwoDigits(i)

\* int(gid)
IntOfStr(s) == IntOf(s)

\* str(datetime): "YYYY-MM-DD HH:MM:00+09:00", the date as the day's number
StrOfDatetime(m) ==
  [date |-> m \div MinutesPerDay,
   hour |-> (m % MinutesPerDay) \div MinutesPerHour,
   minute |-> m % MinutesPerHour]

\* the text has the fields datetime.fromisoformat needs
IsIsoText(s) == DOMAIN s = {"date", "hour", "minute"}

\* datetime.fromisoformat
fromisoformat(s) == s.date * MinutesPerDay + s.hour * MinutesPerHour + s.minute

\* DumpRecord that leaves the flag out
DumpRecordWithoutFlag(r) ==
  [spawn |-> StrOfDatetime(r.spawn), kill |-> StrOfDatetime(r.kill),
   channel |-> r.channel]

DumpRecord(r) ==
  [spawn |-> StrOfDatetime(r.spawn), kill |-> StrOfDatetime(r.kill),
   channel |-> r.channel, prealert_sent |-> r.prealert_sent]

\* json.dump(SCHEDULES, f, default=str)
Dump(S, O) ==
  [i \in 1..Len(S) |->
     [key |-> StrOfInt(S[i].key),
      val |-> [j \in 1..Len(S[i].val) |->
                 [key |-> S[i].val[j].key, val |-> DumpRecord(O[S[i].val[j].val])]]]]

\* save_data: the write succeeds, or open() fails and the file is as it
\* was, or the write fails after open() truncated the file.  The error is
\* caught and printed.
SaveOutcomes(S, O, f) == {Document(Dump(S, O)), f, Corrupt}

\* one persisted record is usable when it has the keys load_data indexes
\* and both times parse
Loadable(d) ==
  /\ {"spawn", "kill", "channel"} \subseteq DOMAIN d
  /\ IsIsoText(d.spawn)
  /\ IsIsoText(d.kill)

\* LoadRecord that reads the kill time from the spawn field
LoadRecordKillFromSpawn(d) ==
  [spawn |-> fromisoformat(d.spawn), kill |-> fromisoformat(d.spawn),
   channel |-> d.channel,
   prealert_sent |-> IF "prealert_sent" \in DOMAIN d THEN d.prealert_sent ELSE FALSE]

LoadRecord(d) ==
  [spawn |-> fromisoformat(d.spawn), kill |-> fromisoformat(d.kill),
   channel |-> d.channel,
   prealert_sent |-> IF "prealert_sent" \in DOMAIN d THEN d.prealert_sent ELSE FALSE]

\* the inner loop of load_data over one tenant's bosses: the entries and
\* the heap after loading them, in file order, each into a new object
RECURSIVE LoadBosses(_, _, _, _)
\* LoadBosses that gives up on a tenant at its first unusable record
LoadBossesStops(bosses, acc, O, used) ==
  IF bosses = <<>> THEN [entries |-> acc, objs |-> O, used |-> used]
  ELSE LET b == Head(bosses) IN
       IF Loadable(b.val)
       THEN LET id == NewId(used) IN
            LoadBosses(Tail(bosses), Put(acc, b.key, id),
                       [x \in DOMAIN O \cup {id} |-> IF x = id THEN LoadRecord(b.val) ELSE O[x]],
                       used \cup {id})
       ELSE [entries |-> acc, objs |-> O, used |-> used]

LoadBosses(bosses, acc, O, used) ==
  IF bosses = <<>> THEN [entries |-> acc, objs |-> O, used |-> used]
  ELSE LET b == Head(bosses) IN
       IF Loadable(b.val)
       THEN LET id == NewId(used) IN
            LoadBosses(Tail(bosses), Put(acc, b.key, id),
                       [x \in DOMAIN O \cup {id} |-> IF x = id THEN LoadRecord(b.val) ELSE O[x]],
                       used \cup {id})
       ELSE LoadBosses(Tail(bosses), acc, O, used)

\* the outer loop of load_data over the tenants of the document
RECURSIVE LoadTenants(_, _, _, _)
LoadTenants(raw, S, O, used) ==
  IF raw = <<>> THEN [S |-> S, objs |-> O]
  ELSE LET t == Head(raw)
           r == LoadBosses(t.val, <<>>, O, used)
       IN LoadTenants(Tail(raw), Put(S, IntOfStr(t.key), r.entries), r.objs, r.used)

\* load_data: the store, the heap and the file it leaves.  O holds the
\* objects that tasks still reference; everything the old store held is
\* dropped by SCHEDULES.clear() (or by rebinding SCHEDULES).
load_data(f, O) ==
  IF ~f.exists THEN {[S |-> <<>>, objs |-> O, file |-> f, saves |-> 0]}
  ELSE IF ~f.json
  THEN {[S |-> <<>>, objs |-> O, file |-> g, saves |-> 1] : g \in SaveOutcomes(<<>>, O, f)}
  ELSE LET r == LoadTenants(f.raw, <<>>, O, DOMAIN O)
       IN {[S |-> r.S, objs |-> r.objs, file |-> f, saves |-> 0]}

----------------------------------------------------------------------------
(* Commands (bot.py lines 83-166).  A message is its author's kind, its    *)
(* guild and channel ids and its stripped text; the text of a command is   *)
(* "." followed by words separated by white space, kept as the sequence of *)
(* those words.  "boss" and "delete" stand for the two Korean keywords.    *)
(* A handler's outcome is the store, heap and file it leaves, its reply    *)
(* and the number of save_data calls it made.                              *)

\* an outcome in which a save that failed takes the place of the reply
OutcomeUnlessSaveFailed(S, O, f, r, n) ==
  [S |-> S, objs |-> O, file |-> f,
   reply |-> IF n > 0 /\ f # Document(Dump(S, O)) THEN [kind |-> "save failed"] ELSE r,
   saves |-> n]

Outcome(S, O, f, r, n) == [S |-> S, objs |-> O, file |-> f, reply |-> r, saves |-> n]

\* the status column of one line of the listing, at wall-clock instant c
ListStatus(spawn, c) ==
  IF spawn * TicksPerMinute < c THEN "past"
  ELSE IF spawn * TicksPerMinute - c > MinutesPerHour * TicksPerMinute THEN "green"
  ELSE "yellow"

\* sorted(items.items(), key=spawn): a stable insertion sort
RECURSIVE SortBySpawn(_, _)
SortBySpawn(items, O) ==
  IF items = <<>> THEN <<>>
  ELSE LET rest == SortBySpawn(SubSeq(items, 1, Len(items) - 1), O)
           x == items[Len(items)]
           k == Cardinality({i \in 1..Len(rest) : O[rest[i].val].spawn <= O[x.val].spawn})
       IN SubSeq(rest, 1, k) \o <<x>> \o SubSeq(rest, k + 1, Len(rest))

ListReply(items, O, c) ==
  LET sorted == SortBySpawn(items, O) IN
  [kind |-> "list",
   lines |-> [i \in 1..Len(sorted) |->
                [boss |-> sorted[i].key, spawn |-> O[sorted[i].val].spawn,
                 status |-> ListStatus(O[sorted[i].val].spawn, c)]]]

Said(kind) == [kind |-> kind]

\* register_boss(message, boss_name, time_str)
register_boss(m, boss_name, time_str, S, O, f, c) ==
  LET parsed == parse_time(time_str) IN
  IF parsed = NoMatch THEN {Outcome(S, O, f, Said("bad time"), 0)}
  ELSE LET t == calc_spawn(boss_name, parsed[1], parsed[2], c)
           id == NewId(DOMAIN O)
           rec == [spawn |-> t.spawn, kill |-> t.kill, channel |-> m.cid,
                   prealert_sent |-> FALSE]
           O2 == [x \in DOMAIN O \cup {id} |-> IF x = id THEN rec ELSE O[x]]
           S2 == Put(S, m.gid, Put(Entries(S, m.gid), boss_name, id))
       IN {Outcome(S2, O2, g,
                   [kind |-> "registered", boss |-> boss_name, kill |-> t.kill,
                    spawn |-> t.spawn, cycle |-> t.cycle], 1)
             : g \in SaveOutcomes(S2, O2, f)}

\* on_message(message)
on_message(m, S, O, f, c) ==
  LET words == m.content
      quiet == {Outcome(S, O, f, Said("nothing"), 0)}
  IN
  IF m.author_bot THEN quiet
  ELSE IF words = <<"boss">>
  THEN LET items == Entries(S, m.gid) IN
       IF items = <<>> THEN {Outcome(S, O, f, Said("empty"), 0)}
       ELSE {Outcome(S, O, f, ListReply(items, O, c), 0)}
  ELSE IF Len(words) >= 1 /\ words[1] = "delete"
  THEN IF Len(words) # 2 THEN {Outcome(S, O, f, Said("delete usage"), 0)}
       ELSE LET boss == words[2] IN
            IF ~Has(S, m.gid) \/ ~Has(Get(S, m.gid), boss)
            THEN {Outcome(S, O, f, Said("no record"), 0)}
            ELSE LET S2 == Put(S, m.gid, Del(Get(S, m.gid), boss)) IN
                 {Outcome(S2, O, g, Said("deleted"), 1) : g \in SaveOutcomes(S2, O, f)}
  ELSE IF Len(words) # 2 THEN {Outcome(S, O, f, Said("register usage"), 0)}
  ELSE IF words[1] \notin DOMAIN BOSS_CYCLE
  THEN {Outcome(S, O, f, Said("unknown boss"), 0)}
  ELSE register_boss(m, words[1], words[2], S, O, f, c)

----------------------------------------------------------------------------
(* alarm_loop (bot.py lines 168-191).  A task is at one of its awaits:     *)
(*   "start"       created by on_ready, not yet run                        *)
(*   "send pre"    awaiting ch.send of the pre-alert for its current record *)
(*   "send final"  awaiting ch.send of the final alert                     *)
(*   "sleep"       awaiting asyncio.sleep(30)                              *)
(*   "dead"        ended by an exception nothing catches                   *)
(* or is "none", not created.  While a tick is under way the task holds    *)
(* now and changed, the rest of list(SCHEDULES.items()) in outer, the      *)
(* current tenant in gid, the rest of list(entries.items()) in inner and   *)
(* the current record in boss and data.  An element of outer references    *)
(* the tenant's dict: live while that dict is still SCHEDULES[gid], else   *)
(* items holds what the dropped dict contains.                             *)

Tasks == {1, 2}

Task(pc) ==
  [pc |-> pc, now |-> 0, changed |-> FALSE, outer |-> <<>>, gid |-> 0,
   inner |-> <<>>, boss |-> "", data |-> 0]

Sending == {"send pre", "send final"}

\* line 181
PreDue(d, now) == now >= d.spawn - PRE_ALERT_MIN /\ ~d.prealert_sent /\ now < d.spawn

\* line 185
FinalDue(d, now) == now >= d.spawn

\* bot.get_channel(data["channel"]) finds the channel
Resolves(d, ch) == d.channel \in ch

\* The tick from where task state L stands to its next await: the state with
\* pc "send pre" or "send final" at the record whose alert it sends, or with
\* pc "tick end" when both loops are exhausted.  Nothing is written on the way.
RECURSIVE Scan(_, _, _, _)
RECURSIVE SecondIf(_, _, _, _)
\* Visit with return in the place of continue: a channel that does not
\* resolve ends the tick
VisitReturns(L, S, O, ch) ==
  LET item == Head(L.inner)
      L1 == [L EXCEPT !.boss = item.key, !.data = item.val, !.inner = Tail(L.inner)]
      d == O[item.val]
  IN IF ~Resolves(d, ch) THEN [L1 EXCEPT !.pc = "tick end"]
     ELSE IF PreDue(d, L.now) THEN [L1 EXCEPT !.pc = "send pre"]
     ELSE SecondIf(L1, S, O, ch)

Visit(L, S, O, ch) ==
  LET item == Head(L.inner)
      L1 == [L EXCEPT !.boss = item.key, !.data = item.val, !.inner = Tail(L.inner)]
      d == O[item.val]
  IN IF ~Resolves(d, ch) THEN Scan(L1, S, O, ch)
     ELSE IF PreDue(d, L.now) THEN [L1 EXCEPT !.pc = "send pre"]
     ELSE SecondIf(L1, S, O, ch)

\* line 185, for the current record
SecondIf(L, S, O, ch) ==
  IF FinalDue(O[L.data], L.now) THEN [L EXCEPT !.pc = "send final"]
  ELSE Scan(L, S, O, ch)

Scan(L, S, O, ch) ==
  IF L.inner # <<>> THEN Visit(L, S, O, ch)
  ELSE IF L.outer # <<>>
  THEN LET t == Head(L.outer) IN
       Scan([L EXCEPT !.outer = Tail(L.outer), !.gid = t.gid,
                      !.inner = IF t.live THEN Get(S, t.gid) ELSE t.items],
            S, O, ch)
  ELSE [L EXCEPT !.pc = "tick end"]

\* lines 189-191: save if anything changed, then sleep
EndOfTick(L, S, O, f) ==
  IF L.pc # "tick end" THEN {[task |-> L, file |-> f, saves |-> 0]}
  ELSE IF L.changed
  THEN {[task |-> Task("sleep"), file |-> g, saves |-> 1] : g \in SaveOutcomes(S, O, f)}
  ELSE {[task |-> Task("sleep"), file |-> f, saves |-> 0]}

\* lines 172-174: a tick begins
BeginTick(S, c) ==
  [Task("scan") EXCEPT
     !.now = NowMinute(c),
     !.outer = [i \in 1..Len(S) |-> [gid |-> S[i].key, live |-> TRUE, items |-> <<>>]]]

\* lines 183-184 and 187-188: what the task does when its send returns
AfterSend(L, S, O, ch) ==
  IF L.pc = "send pre"
  THEN LET O2 == [O EXCEPT ![L.data].prealert_sent = TRUE] IN
       [S |-> S, objs |-> O2, task |-> SecondIf([L EXCEPT !.changed = TRUE], S, O2, ch)]
  ELSE IF ~Has(S, L.gid) \/ ~Has(Get(S, L.gid), L.boss)
  THEN [S |-> S, objs |-> O, task |-> Task("dead")]       \* KeyError
  ELSE LET S2 == Put(S, L.gid, Del(Get(S, L.gid), L.boss)) IN
       [S |-> S2, objs |-> O, task |-> Scan([L EXCEPT !.changed = TRUE], S2, O, ch)]

\* the references a task holds
TaskRefs(L) ==
  {e.val : e \in Range(L.inner)}
    \cup (IF L.pc \in Sending THEN {L.data} ELSE {})
    \cup UNION {{e.val : e \in Range(t.items)} : t \in Range(L.outer)}

\* SCHEDULES.clear() and SCHEDULES = {} drop the tenants' dicts: a task that
\* still has one in its snapshot keeps what the dict held
Orphan(L, S) ==
  [L EXCEPT !.outer = [i \in 1..Len(L.outer) |->
     IF L.outer[i].live
     THEN [gid |-> L.outer[i].gid, live |-> FALSE, items |-> Get(S, L.outer[i].gid)]
     ELSE L.outer[i]]]

----------------------------------------------------------------------------
(* The state machine *)

Guilds == {1, 2}
ChannelOf(gid) == gid * 10
Channels == {ChannelOf(g) : g \in Guilds}

T_0_00 == <<"0", ":", "0", "0">>
T_00_01 == <<"0", "0", ":", "0", "1">>
T_24_00 == <<"2", "4", ":", "0", "0">>
T_0_60 == <<"0", ":", "6", "0">>
T_0_0 == <<"0", ":", "0">>

\* what the users type
Words ==
  { <<"boss">>, <<"delete">>, <<"delete", "Venatus">>, <<"delete", "Violent">>,
    <<"Venatus", T_0_00>>, <<"Venatus", T_00_01>>, <<"Violent", T_0_00>>,
    <<"Venatus">>, <<"Nobody", T_0_00>>,
    <<"Venatus", T_24_00>>, <<"Venatus", T_0_60>>, <<"Venatus", T_0_0>> }

\* guild 2 uses fewer commands than guild 1
Contents(g) ==
  IF g = 1 THEN Words
  ELSE {<<"boss">>, <<"delete", "Venatus">>, <<"Venatus", T_0_00>>}

Messages ==
  UNION {{[author_bot |-> FALSE, gid |-> g, cid |-> ChannelOf(g), content |-> w]
            : w \in Contents(g)} : g \in Guilds}
  \cup {[author_bot |-> TRUE, gid |-> 1, cid |-> ChannelOf(1),
         content |-> <<"Venatus", T_0_00>>]}

\* The wall clock shows two instants in a run: 03:50:00, when a boss killed
\* at 0:00 with a 4 hour cycle is 10 minutes away, and 04:00:30, when it is
\* there.
StartClock == 460
MaxClock == 481
Instants == {StartClock, MaxClock}

\* The references in the order the store and then the tasks hold them.
RECURSIVE Flatten(_)
Flatten(ss) == IF ss = <<>> THEN <<>> ELSE Head(ss) \o Flatten(Tail(ss))

Vals(d) == [i \in 1..Len(d) |-> d[i].val]

TaskRefSeq(L) ==
  (IF L.pc \in Sending THEN <<L.data>> ELSE <<>>)
    \o Vals(L.inner)
    \o Flatten([i \in 1..Len(L.outer) |-> Vals(L.outer[i].items)])

RefSeq(S, T) ==
  Flatten([i \in 1..Len(S) |-> Vals(S[i].val)])
    \o Flatten([l \in 1..Cardinality(Tasks) |-> TaskRefSeq(T[l])])

\* s without its repetitions, from place i on, after acc
RECURSIVE Distinct(_, _, _)
Distinct(s, i, acc) ==
  IF i > Len(s) THEN acc
  ELSE Distinct(s, i + 1, IF s[i] \in Range(acc) THEN acc ELSE Append(acc, s[i]))

\* the place of x in u
Place(u, x) == CHOOSE n \in 1..Len(u) : u[n] = x

RenameDict(d, u) == [i \in 1..Len(d) |-> [key |-> d[i].key, val |-> Place(u, d[i].val)]]

RenameTask(L, u) ==
  [L EXCEPT !.data = IF L.pc \in Sending THEN Place(u, L.data) ELSE 0,
            !.inner = RenameDict(L.inner, u),
            !.outer = [i \in 1..Len(L.outer) |->
                         [L.outer[i] EXCEPT !.items = RenameDict(L.outer[i].items, u)]]]

\* Every step leaves in objs the objects something still references (the
\* others are garbage), numbered in the order in which RefSeq meets them:
\* which number a reference is has no meaning, so equal heaps are written
\* equally.
Commit(S0, O0, T0) ==
  \E S \in {S0}, O \in {O0}, T \in {T0} :
  \E u \in {Distinct(RefSeq(S, T), 1, <<>>)} :
    /\ SCHEDULES' = [i \in 1..Len(S) |-> [key |-> S[i].key, val |-> RenameDict(S[i].val, u)]]
    /\ loops' = [l \in DOMAIN T |-> RenameTask(T[l], u)]
    /\ objs' = [n \in 1..Len(u) |-> O[u[n]]]

\* The surroundings of a run, named in env: how many times the ready event
\* fires, the messages users send, the channels that may be deleted and
\* whether writing the file can fail.
From(g, ws) == {m \in Messages : m.gid = g /\ m.content \in ws}

Few == From(1, {<<"Venatus", T_0_00>>, <<"Violent", T_0_00>>, <<"delete", "Venatus">>})

\* "everyday": one session, both guilds, every command, a channel that may
\*             vanish
\* "reconnect": the session is lost and set up again, so that the ready
\*             event fires once more
\* "bad disk": writing the file may fail
Runs == {"everyday", "reconnect", "bad disk"}

ReadyEvents(e) == IF e = "reconnect" THEN Cardinality(Tasks) ELSE 1
Sent(e) == IF e = "everyday" THEN Messages ELSE Few
Fragile(e) == IF e = "everyday" THEN {ChannelOf(1)} ELSE {}
Faulty(e) == e = "bad disk"

\* the records that can exist in a run: SCHEDULES[gid][boss]
Slots == {<<m.gid, m.content[1]>> : m \in {x \in Messages : Len(x.content) = 2 /\ x.content[1] \in DOMAIN BOSS_CYCLE}}

\* the object stored under slot k, 0 when there is none
Stored(S, k) == IF Has(S, k[1]) /\ Has(Get(S, k[1]), k[2]) THEN Get(Get(S, k[1]), k[2]) ELSE 0

\* the history after a step from store S0 to store S1 in which a pre-alert
\* was sent for the slots in sent: a slot that holds another object than
\* before, or none, starts again at 0
Counted(P, S0, S1, sent) ==
  [k \in Slots |->
     IF Stored(S1, k) # Stored(S0, k) THEN 0
     ELSE IF k \in sent THEN (IF P[k] = 0 THEN 1 ELSE 2)
     ELSE P[k]]

\* the history of final alerts after a command left store S1: a slot that
\* holds a newly registered record starts again
Registered(F, S0, S1) ==
  [k \in Slots |-> IF Stored(S1, k) \notin {0, Stored(S0, k)} THEN FALSE ELSE F[k]]

\* the history of final alerts after a task went on to state L with store S
\* and heap O
Finalled(F, L, S, O) ==
  [k \in Slots |->
     IF /\ L.pc = "send final"
        /\ k = <<L.gid, L.boss>>
        /\ Stored(S, k) = L.data
        /\ ~O[L.data].prealert_sent
     THEN TRUE ELSE F[k]]

Init ==
  /\ SCHEDULES = <<>>
  /\ objs = <<>>
  /\ file = NoFile
  /\ clock = StartClock
  /\ channels = Channels
  /\ loops = [l \in Tasks |-> Task("none")]
  /\ env \in Runs
  /\ prealerts = [k \in Slots |-> 0]
  /\ finals = [k \in Slots |-> FALSE]

\* whether a save that left file g for store S and heap O may happen here
SaveAllowed(n, g, S, O) == n = 0 \/ Faulty(env) \/ g = Document(Dump(S, O))

\* a message arrives and on_message handles it
OnMessage(m) ==
  /\ m \in Sent(env)
  /\ \E r \in on_message(m, SCHEDULES, objs, file, clock) :
       /\ SaveAllowed(r.saves, r.file, r.S, r.objs)
       /\ Commit(r.S, r.objs, loops)
       /\ file' = r.file
       /\ prealerts' = Counted(prealerts, SCHEDULES, r.S, {})
       /\ finals' = Registered(finals, SCHEDULES, r.S)
  /\ UNCHANGED <<clock, channels, env>>

\* the ready event fires: load_data, then a new alarm_loop task
OnReady(l) ==
  /\ loops[l].pc = "none"
  /\ l <= ReadyEvents(env)
  /\ \A k \in Tasks : k < l => loops[k].pc # "none"
  /\ \E T \in {[k \in Tasks |-> Orphan(loops[k], SCHEDULES)]} :
     \E kept \in {[x \in UNION {TaskRefs(T[k]) : k \in Tasks} |-> objs[x]]} :
     \E r \in load_data(file, kept) :
       /\ SaveAllowed(r.saves, r.file, r.S, r.objs)
       /\ Commit(r.S, r.objs, [T EXCEPT ![l] = Task("start")])
       /\ file' = r.file
  /\ UNCHANGED <<clock, channels, env, prealerts, finals>>

\* a task runs on from its await with store S, heap O and state L
Resume(l, S, O, L) ==
  \E e \in EndOfTick(L, S, O, file) :
    /\ SaveAllowed(e.saves, e.file, S, O)
    /\ Commit(S, O, [loops EXCEPT ![l] = e.task])
    /\ file' = e.file
    /\ prealerts' = Counted(prealerts, SCHEDULES, S,
                            IF L.pc = "send pre" /\ Stored(S, <<L.gid, L.boss>>) = L.data
                            THEN {<<L.gid, L.boss>>} ELSE {})
    /\ finals' = Finalled(finals, L, S, O)
    /\ UNCHANGED <<clock, channels, env>>

\* wait_until_ready or the sleep returns: the task runs a tick up to its
\* first send, or to the next sleep when there is nothing to send
Tick(l) ==
  /\ loops[l].pc \in {"start", "sleep"}
  /\ \E L \in {Scan(BeginTick(SCHEDULES, clock), SCHEDULES, objs, channels)} :
       Resume(l, SCHEDULES, objs, L)

\* the awaited ch.send returns
SendDone(l) ==
  /\ loops[l].pc \in Sending
  /\ \E a \in {AfterSend(loops[l], SCHEDULES, objs, channels)} :
       Resume(l, a.S, a.objs, a.task)

\* the awaited ch.send raises: nothing in alarm_loop catches it
SendFails(l) ==
  /\ loops[l].pc \in Sending
  /\ Commit(SCHEDULES, objs, [loops EXCEPT ![l] = Task("dead")])
  /\ UNCHANGED <<file, clock, channels, env, prealerts, finals>>

\* a channel is deleted or leaves the cache
ChannelGone(c) ==
  /\ c \in channels \cap Fragile(env)
  /\ channels' = channels \ {c}
  /\ UNCHANGED <<SCHEDULES, objs, file, clock, loops, env, prealerts, finals>>

\* time passes
Advance(c) ==
  /\ c > clock
  /\ clock' = c
  /\ UNCHANGED <<SCHEDULES, objs, file, channels, loops, env, prealerts, finals>>

Next ==
  \/ \E m \in Messages : OnMessage(m)
  \/ \E l \in Tasks : OnReady(l)
  \/ \E l \in Tasks : Tick(l)
  \/ \E l \in Tasks : SendDone(l)
  \/ \E l \in Tasks : SendFails(l)
  \/ \E c \in Channels : ChannelGone(c)
  \/ \E c \in Instants : Advance(c)

Spec == Init /\ [][Next]_vars

----------------------------------------------------------------------------
(* Properties *)

\* the slot of the record a task is at
Slot(L) == <<L.gid, L.boss>>

\* the task awaits a send for the record that the store holds in its slot
InFlight(L, S) == L.pc \in Sending /\ Stored(S, Slot(L)) = L.data

\* C1: between the moment alarm_loop has found an alert due for a record and
\* the moment it writes (the flag, or the removal), no command takes effect
\* on that record: a message handled while the send is awaited leaves the
\* record of the slot the one the task decided about.
C1_CheckThenMutateAtomic ==
  [][\A l \in Tasks, m \in Messages :
       (InFlight(loops[l], SCHEDULES) /\ OnMessage(m))
         => InFlight(loops'[l], SCHEDULES')]_vars

\* C2: a tick retires every record that is due: when the send of a final
\* alert returns and the tick ends with that step, no record that was still
\* ahead in the tick's snapshot, due at the tick's now, with a channel that
\* resolves, is left in the store.
C2_DueRecordsRetired ==
  [][\A l \in Tasks :
       (SendDone(l) /\ loops'[l].pc \in {"sleep", "dead"}) =>
         \A e \in Range(loops[l].inner) :
           (/\ Stored(SCHEDULES, <<loops[l].gid, e.key>>) = e.val
            /\ FinalDue(objs[e.val], loops[l].now)
            /\ Resolves(objs[e.val], channels))
             => Stored(SCHEDULES', <<loops[l].gid, e.key>>) = 0]_vars

\* C3: as long as a record is not registered again, at most one pre-alert
\* is sent for it.
C3_AtMostOnePreAlert == \A k \in Slots : prealerts[k] <= 1

\* C4: a send that fails does not stop the scheduler: after the step in
\* which the awaited send raises, the task is still running its tick or
\* sleeping until the next one.
C4_SendFailureContained ==
  [][\A l \in Tasks : SendFails(l) => loops'[l].pc \in Sending \cup {"sleep"}]_vars

\* the task starts a pre-alert send in this step
StartsPreAlert(L0, L1) == L1.pc = "send pre" /\ ~(L0.pc = "send pre" /\ Slot(L0) = Slot(L1))

\* C6: once the final alert was sent for a record at a tick that found its
\* pre-alert unsent, no pre-alert is sent for that record any more.
C6_NoPreAlertAfterFinal ==
  [][\A l \in Tasks :
       StartsPreAlert(loops[l], loops'[l]) => ~finals[Slot(loops'[l])]]_vars

\* the stored records a tick at minute now would alert for
Due(S, O, ch, now) ==
  {k \in Slots : /\ Stored(S, k) # 0
                 /\ Resolves(O[Stored(S, k)], ch)
                 /\ (PreDue(O[Stored(S, k)], now) \/ FinalDue(O[Stored(S, k)], now))}

\* the stored records whose channel does not resolve
Unresolved(S, O, ch) == {k \in Slots : Stored(S, k) # 0 /\ ~Resolves(O[Stored(S, k)], ch)}

\* the task starts a send in this step
StartsSend(L0, L1) == L1.pc \in Sending /\ ~(L0.pc = L1.pc /\ Slot(L0) = Slot(L1))

\* C5: a record whose channel does not resolve gets no send and is left as
\* it is, in the store, by every step of a tick (the record whose send the
\* task was awaiting had its channel resolved before); the tick goes on to
\* the other records, so that a tick that sends nothing leaves no record
\* that is due and whose channel resolves.
C5_UnresolvedSkipped ==
  [][\A l \in Tasks :
       (Tick(l) \/ SendDone(l)) =>
         /\ StartsSend(loops[l], loops'[l])
              => Resolves(objs'[loops'[l].data], channels)
         /\ \A k \in Unresolved(SCHEDULES, objs, channels) :
              (loops[l].pc \in Sending /\ k = Slot(loops[l]))
                \/ RecordAt(SCHEDULES', objs', k[1], k[2]) = RecordAt(SCHEDULES, objs, k[1], k[2])
         /\ (Tick(l) /\ loops'[l].pc = "sleep")
              => Due(SCHEDULES, objs, channels, NowMinute(clock)) = {}]_vars

\* A task sends for a record of guild 2 although guild 1, which comes first
\* in the store, holds a record that is due at the tick's now and whose
\* channel is gone.
C5_Witness ==
  \E l \in Tasks :
    /\ loops[l].pc \in Sending
    /\ loops[l].gid = 2
    /\ SCHEDULES[1].key = 1
    /\ ChannelOf(1) \notin channels
    /\ \E k \in Unresolved(SCHEDULES, objs, channels) :
         /\ k[1] = 1
         /\ PreDue(objs[Stored(SCHEDULES, k)], loops[l].now)
              \/ FinalDue(objs[Stored(SCHEDULES, k)], loops[l].now)

\* what a guild's listing may show: its records' names and times
Listed(S, O, gid) ==
  {[boss |-> x.boss, spawn |-> x.rec.spawn] : x \in Range(TenantView(S, O, gid))}

\* C7: whatever command arrives from a guild, the records of every other
\* guild are the same after it, by name, order and field values, and a
\* listing shows records of the asking guild only; when a task's send
\* returns, what the task writes leaves the records of every guild but the
\* record's own as they are.
C7_TenantIsolation ==
  /\ \A m \in Messages :
       \A r \in on_message(m, SCHEDULES, objs, file, clock) :
         /\ \A g \in Guilds \ {m.gid} :
              TenantView(r.S, r.objs, g) = TenantView(SCHEDULES, objs, g)
         /\ r.reply.kind = "list" =>
              {[boss |-> x.boss, spawn |-> x.spawn] : x \in Range(r.reply.lines)}
                \subseteq Listed(SCHEDULES, objs, m.gid)
  /\ \A l \in Tasks :
       loops[l].pc \in Sending =>
         \A a \in {AfterSend(loops[l], SCHEDULES, objs, channels)} :
           \A g \in Guilds \ {loops[l].gid} :
             TenantView(a.S, a.objs, g) = TenantView(SCHEDULES, objs, g)

\* Both guilds hold a record of the same name; guild 1's has had its
\* pre-alert, guild 2's has not.
C7_Witness ==
  /\ Stored(SCHEDULES, <<1, "Venatus">>) # 0
  /\ Stored(SCHEDULES, <<2, "Venatus">>) # 0
  /\ objs[Stored(SCHEDULES, <<1, "Venatus">>)].prealert_sent
  /\ ~objs[Stored(SCHEDULES, <<2, "Venatus">>)].prealert_sent

\* C8: every record in the store has a name of BOSS_CYCLE, and its spawn
\* time is its kill time plus the cycle of that name in hours.
C8_SpawnIsKillPlusCycle ==
  \A t \in Range(SCHEDULES) :
    \A e \in Range(t.val) :
      /\ e.key \in DOMAIN BOSS_CYCLE
      /\ objs[e.val].spawn = objs[e.val].kill + BOSS_CYCLE[e.key] * MinutesPerHour

\* The ready event has fired a second time, so the store was loaded from
\* the file the commands and ticks had saved, and it holds a record whose
\* pre-alert a tick has sent.
C8_Witness ==
  /\ \A l \in Tasks : loops[l].pc # "none"
  /\ \E t \in Range(SCHEDULES) : \E e \in Range(t.val) : objs[e.val].prealert_sent

\* The texts of a time of day: one or two digits for the hour, a colon, two
\* digits for the minute.
TimeText(hh, mm, padded) ==
  (IF hh < 10 /\ ~padded THEN <<DigitChars[hh + 1]>> ELSE TwoDigits(hh))
    \o <<":">> \o TwoDigits(mm)

ValidTimeTexts == {TimeText(hh, mm, p) : hh \in 0..23, mm \in 0..59, p \in BOOLEAN}

\* the message ".<boss> <text>" from guild g
Request(g, boss, text) ==
  [author_bot |-> FALSE, gid |-> g, cid |-> ChannelOf(g), content |-> <<boss, text>>]

\* times of day before and after the instants of a run, as they may be
\* written
SampleTimes == {<<0, 0, FALSE>>, <<0, 0, TRUE>>, <<9, 5, FALSE>>, <<9, 5, TRUE>>, <<23, 59, TRUE>>}

SampleBosses == {"Venatus", "Ego"}

\* C9: registering a name of BOSS_CYCLE with a valid time of day always
\* succeeds and leaves exactly one record under (guild, name): killed today
\* at that time, be it before or after now, spawning one cycle later, with
\* the channel of the message and the pre-alert unsent, whatever record was
\* there before.
C9_RegisterRecord ==
  \A g \in Guilds, boss \in SampleBosses, t \in SampleTimes :
    \A r \in on_message(Request(g, boss, TimeText(t[1], t[2], t[3])),
                        SCHEDULES, objs, file, clock) :
    \A view \in {TenantView(r.S, r.objs, g)} :
      /\ r.reply.kind = "registered"
      /\ Cardinality({x \in DOMAIN view : view[x].boss = boss}) = 1
      /\ \A x \in Range(view) :
           x.boss = boss =>
             /\ x.rec.kill \div MinutesPerDay = NowMinute(clock) \div MinutesPerDay
             /\ x.rec.kill % MinutesPerDay = t[1] * MinutesPerHour + t[2]
             /\ x.rec.spawn = x.rec.kill + BOSS_CYCLE[boss] * MinutesPerHour
             /\ x.rec.channel = ChannelOf(g)
             /\ x.rec.prealert_sent = FALSE

\* A record was registered again after its pre-alert: the file still shows
\* the record with the pre-alert sent (the save of the registration failed),
\* the store shows it unsent.
C9_Witness ==
  /\ Stored(SCHEDULES, <<1, "Venatus">>) # 0
  /\ ~objs[Stored(SCHEDULES, <<1, "Venatus">>)].prealert_sent
  /\ file = Document(Dump(SCHEDULES,
                          [x \in DOMAIN objs |-> [objs[x] EXCEPT !.prealert_sent = TRUE]]))

\* the commands the bot rejects
UnknownEntity(m) ==
  Len(m.content) = 2 /\ m.content[1] \notin DOMAIN BOSS_CYCLE \cup {"delete", "boss"}

InvalidTimeFormat(m) ==
  Len(m.content) = 2 /\ m.content[1] \in DOMAIN BOSS_CYCLE /\ m.content[2] \notin ValidTimeTexts

NotFound(m, S) ==
  Len(m.content) = 2 /\ m.content[1] = "delete" /\ Stored(S, <<m.gid, m.content[2]>>) = 0

\* C10: a registration with an unknown name, a registration with a text
\* that is no time of day, and a deletion of a record that does not exist
\* are answered with a refusal and leave the store, its records and the file
\* as they were, without a save.
C10_RejectedChangesNothing ==
  \A m \in Messages :
    (~m.author_bot /\ (UnknownEntity(m) \/ InvalidTimeFormat(m) \/ NotFound(m, SCHEDULES))) =>
      \A r \in on_message(m, SCHEDULES, objs, file, clock) :
        /\ r.S = SCHEDULES
        /\ r.objs = objs
        /\ r.file = file
        /\ r.saves = 0
        /\ r.reply.kind = (IF UnknownEntity(m) THEN "unknown boss"
                           ELSE IF InvalidTimeFormat(m) THEN "bad time" ELSE "no record")

\* A store and a file with a record in them, where a command of each of the
\* three kinds is refused.
C10_Witness ==
  /\ Stored(SCHEDULES, <<1, "Venatus">>) # 0
  /\ file = Document(Dump(SCHEDULES, objs))
  /\ \E m \in Messages :
       UnknownEntity(m) /\ on_message(m, SCHEDULES, objs, file, clock)
                             = {Outcome(SCHEDULES, objs, file, Said("unknown boss"), 0)}
  /\ \E m \in Messages :
       InvalidTimeFormat(m) /\ on_message(m, SCHEDULES, objs, file, clock)
                                 = {Outcome(SCHEDULES, objs, file, Said("bad time"), 0)}
  /\ \E m \in Messages :
       NotFound(m, SCHEDULES) /\ on_message(m, SCHEDULES, objs, file, clock)
                                   = {Outcome(SCHEDULES, objs, file, Said("no record"), 0)}

TenantIds(S) == [i \in 1..Len(S) |-> S[i].key]

\* C12: load_data of the document save_data writes for the store gives the
\* store back: the same tenant ids (those without records included), and
\* for each the same names with the same kill time, spawn time, channel and
\* flag; nothing is skipped and nothing is reset.
C12_RoundTrip ==
  \A loaded \in {load_data(Document(Dump(SCHEDULES, objs)), <<>>)} :
    /\ loaded # {}
    /\ \A r \in loaded :
         /\ r.saves = 0
         /\ TenantIds(r.S) = TenantIds(SCHEDULES)
         /\ \A g \in Guilds : TenantView(r.S, r.objs, g) = TenantView(SCHEDULES, objs, g)

\* A store with a tenant whose records are all gone and a record whose
\* pre-alert was sent.
C12_Witness ==
  /\ \E t \in Range(SCHEDULES) : t.val = <<>>
  /\ \E t \in Range(SCHEDULES) : \E e \in Range(t.val) : objs[e.val].prealert_sent

\* the file shows the store (no file stands for a store without tenants)
FileShowsStore == file = Document(Dump(SCHEDULES, objs)) \/ (file = NoFile /\ SCHEDULES = <<>>)

\* C13: in a run in which no save fails, whenever no tick is under way
\* (every alarm_loop task is not yet started, sleeping or stopped) the file
\* shows the store.
C13_FileFollowsStore ==
  (~Faulty(env) /\ \A l \in Tasks : loops[l].pc \in {"none", "start", "sleep", "dead"})
    => FileShowsStore

\* the ways one persisted record can be malformed
Damages == {"no spawn", "no kill", "no channel", "bad spawn", "bad kill"}

NotATime == [text |-> "soon"]

Damaged(d, how) ==
  CASE how = "no spawn" -> [x \in DOMAIN d \ {"spawn"} |-> d[x]]
    [] how = "no kill" -> [x \in DOMAIN d \ {"kill"} |-> d[x]]
    [] how = "no channel" -> [x \in DOMAIN d \ {"channel"} |-> d[x]]
    [] how = "bad spawn" -> [d EXCEPT !.spawn = NotATime]
    [] how = "bad kill" -> [d EXCEPT !.kill = NotATime]

\* the document raw with record j of tenant i malformed
DamagedAt(raw, i, j, how) ==
  [raw EXCEPT ![i].val = [@ EXCEPT ![j].val = Damaged(@, how)]]

\* C14: when one record of the document is malformed (spawn, kill or
\* channel missing, spawn or kill not a time), load_data leaves out that
\* record and loads every other record of every tenant with the values the
\* document has, without resetting the store.
C14_MalformedRecordSkipped ==
  \A raw \in {Dump(SCHEDULES, objs)} :
    \A i \in DOMAIN raw :
      \A j \in DOMAIN raw[i].val, how \in Damages :
        \A without \in {Put(SCHEDULES, SCHEDULES[i].key,
                            Del(SCHEDULES[i].val, SCHEDULES[i].val[j].key))} :
        \A loaded \in {load_data(Document(DamagedAt(raw, i, j, how)), <<>>)} :
          /\ loaded # {}
          /\ \A r \in loaded :
               /\ r.saves = 0
               /\ TenantIds(r.S) = TenantIds(SCHEDULES)
               /\ \A g \in Guilds : TenantView(r.S, r.objs, g) = TenantView(without, objs, g)

\* A store with two records in one tenant and a record in another: whichever
\* is malformed in the file, records remain in its tenant or in the other.
C14_Witness ==
  /\ Stored(SCHEDULES, <<1, "Venatus">>) # 0
  /\ Stored(SCHEDULES, <<1, "Violent">>) # 0
  /\ Stored(SCHEDULES, <<2, "Venatus">>) # 0
  /\ \A r \in load_data(Document(DamagedAt(Dump(SCHEDULES, objs), 1, 1, "bad spawn")), <<>>) :
       Len(r.S[1].val) = 1 /\ Len(r.S[2].val) = 1

\* C15: whatever commands arrive while a send is awaited, the task goes on
\* when the send returns: it does not end with an error.
C15_LoopNeverStops ==
  [][\A l \in Tasks : SendDone(l) => loops'[l].pc # "dead"]_vars

\* C16: the scheduler removes a record only at a tick whose now has reached
\* the spawn time the record has in the store.
C16_RemovedOnlyWhenDue ==
  [][\A l \in Tasks, k \in Slots :
       (SendDone(l) /\ Stored(SCHEDULES, k) # 0 /\ Stored(SCHEDULES', k) = 0)
         => FinalDue(objs[Stored(SCHEDULES, k)], loops[l].now)]_vars

\* C17: in a run with one alarm_loop and one load, no send is started for a
\* slot that holds no record: once a record is deleted, it gets no alert
\* unless it is registered again.
C17_NoAlertAfterDelete ==
  [][\A l \in Tasks :
       (ReadyEvents(env) = 1 /\ StartsSend(loops[l], loops'[l]))
         => Stored(SCHEDULES', Slot(loops'[l])) # 0]_vars

\* C18: however often the ready event fires, one alarm_loop task is started.
C18_OneLoop == Cardinality({l \in Tasks : loops[l].pc # "none"}) <= 1

\* the flag of the record in slot k of store S
Flagged(S, O, k) == Stored(S, k) # 0 /\ O[Stored(S, k)].prealert_sent

\* C19: unless a command arrives for it, a record that stays in the store
\* keeps its flag once the flag is true.
C19_FlagNeverCleared ==
  [][\A k \in Slots :
       (/\ Flagged(SCHEDULES, objs, k)
        /\ Stored(SCHEDULES', k) # 0
        /\ ~\E m \in Messages : OnMessage(m))
         => Flagged(SCHEDULES', objs', k)]_vars

\* the words content.split() gives for a name
NameWords(n) ==
  CASE n = "Lady Dahlia" -> <<"Lady", "Dahlia">>
    [] n = "General Aculeus" -> <<"General", "Aculeus">>
    [] n = "Baron Braudmore" -> <<"Baron", "Braudmore">>
    [] OTHER -> <<n>>

\* C20: for every name of BOSS_CYCLE the command made of the name and a
\* valid time is answered with the registration of that name.
C20_EveryNameRegistrable ==
  \A n \in DOMAIN BOSS_CYCLE :
    \A r \in on_message([author_bot |-> FALSE, gid |-> 1, cid |-> ChannelOf(1),
                         content |-> NameWords(n) \o <<T_0_00>>],
                        SCHEDULES, objs, file, clock) :
      r.reply.kind = "registered" /\ Stored(r.S, <<1, n>>) # 0

====
